---- MODULE Spec2Model ----
(***************************************************************************)
(* verse-session-id: the 32-byte session identity, its comparison and      *)
(* conversion rules, the present-or-absent compatibility layer, the        *)
(* SignatureSet layout and text form, and the salted sign / verify         *)
(* protocol.                                                               *)
(*                                                                         *)
(* A byte is a number in 0..255, a byte buffer a sequence of bytes.  Every *)
(* fallible operation returns a record with a field ok and a field kind    *)
(* naming the error that the caller receives.                              *)
(***************************************************************************)
EXTENDS Integers, Sequences, FiniteSets

VARIABLES
  pc,        \* the operation that produced the current results ("start" before any)
  cmpA, cmpB, cmpC,          \* byte buffers handed to compare_session_ids
  ordAB, ordBA, ordBC, ordAC,\* its results on the pairs
  sidA, sidB,                \* two SessionId values (32 bytes each)
  sidDerived, sidSlice,      \* a.cmp(&b) and a.cmp_slice(&b)
  cx, cy,                    \* two SessionIdCompatible values
  eqXY, eqYX,                \* x.eq_slice(&y), y.eq_slice(&x)
  convIn,                    \* a SessionIdCompatible value to convert
  convRes,                   \* the Result<SessionId> of the conversion
  ssIn,                      \* a SignatureSet
  ssVec,                     \* a byte buffer offered as a SignatureSet
  ssText,                    \* a text form
  ssRes,                     \* the Result<SignatureSet> of a parse
  kp,                        \* the signer's SessionIdPair
  payload,                   \* the payload segments handed to sign
  signed,                    \* the Result<SignatureSet> of the latest sign
  earlier,                   \* the Result<SignatureSet> of the sign before it
  vId, vPayload, vSig,       \* the identity, payload and SignatureSet handed to verify
  vRes                       \* the result of verify: "Ok" or the error's kind

vars == <<pc, cmpA, cmpB, cmpC, ordAB, ordBA, ordBC, ordAC, sidA, sidB,
          sidDerived, sidSlice, cx, cy, eqXY, eqYX, convIn, convRes,
          ssIn, ssVec, ssText, ssRes, kp, payload, signed, earlier,
          vId, vPayload, vSig, vRes>>

(***************************************************************************)
(* Program constants                                                       *)
(***************************************************************************)
SESSION_ID_SIZE == 32
SIGNATURE_SALT_SIZE == 8
SIGNATURE_SIZE == 64

(***************************************************************************)
(* Bounds of the model                                                     *)
(***************************************************************************)
\* longest buffer handed to the general comparator and to eq_slice
MaxBufLen == 2
\* longest buffer handed to the SessionId conversions (31, 32 and 33 occur)
MaxConvLen == 33
\* longest buffer offered as a SignatureSet (71, 72 and 73 occur)
MaxSigBufLen == 73
\* most segments in a payload, and most bytes in all its segments together
MaxSegs == 2
MaxPayloadLen == 2

\* byte values of the short buffers; 200 is above the signed-byte range
CmpBytes == {0, 1, 200}
\* byte values of the 32-byte patterns
IdBytes == {0, 1, 127, 128, 255}
\* positions at which a 32-byte pattern departs from its fill byte
IdPositions == {1, 2, 31, 32}

RECURSIVE SeqsUpTo(_, _)
\* all sequences over S of length 0..n
SeqsUpTo(S, n) ==
  IF n = 0 THEN {<<>>}
  ELSE LET shorter == SeqsUpTo(S, n - 1)
       IN  shorter \cup {Append(s, x) : s \in {t \in shorter : Len(t) = n - 1}, x \in S}

\* a buffer of length len, fill everywhere except v at position p
Pattern(len, f, p, v) == [i \in 1..len |-> IF i = p THEN v ELSE f]

ShortBuffers == SeqsUpTo(CmpBytes, MaxBufLen)

(***************************************************************************)
(* session_id.rs                                                           *)
(***************************************************************************)

\* std::cmp::Ordering
Ordering == {"Less", "Equal", "Greater"}

\* Ord::cmp on two integers
IntCmp(m, n) == IF m < n THEN "Less" ELSE IF m > n THEN "Greater" ELSE "Equal"

\* `x as i32` for x: u8 (zero extension)
U8AsI32(x) == x % 256

\* a[i] for a Rust slice (0-based); OutOfRange stands for the index panic
OutOfRange == 0 - 1
Index(a, i) == IF i + 1 \in DOMAIN a THEN a[i + 1] ELSE OutOfRange

RECURSIVE CompareLoop(_, _, _, _)
\* the loop `for i in 0..n` of compare_session_ids, from index i on
CompareLoop(a, b, i, n) ==
  IF i >= n THEN "Equal"
  ELSE IF Index(a, i) = OutOfRange \/ Index(b, i) = OutOfRange THEN "Panic"
  ELSE LET diff == IntCmp(U8AsI32(Index(a, i)), U8AsI32(Index(b, i)))
       IN  IF diff # "Equal" THEN diff ELSE CompareLoop(a, b, i + 1, n)

\* mutant: the length check is dropped
compare_session_ids_nolen(a, b) == CompareLoop(a, b, 0, Len(a))

RECURSIVE SignedLoop(_, _, _, _)
SignedLoop(a, b, i, n) ==
  IF i >= n THEN "Equal"
  ELSE LET sa == IF a[i + 1] >= 128 THEN a[i + 1] - 256 ELSE a[i + 1]
           sb == IF b[i + 1] >= 128 THEN b[i + 1] - 256 ELSE b[i + 1]
       IN  IF sa # sb THEN IntCmp(sa, sb) ELSE SignedLoop(a, b, i + 1, n)

\* mutant: bytes are compared as signed (i8) values
compare_session_ids_signed(a, b) ==
  IF Len(a) # Len(b) THEN IntCmp(Len(a), Len(b)) ELSE SignedLoop(a, b, 0, Len(a))

\* mutant: a length mismatch is decided by the common prefix first
compare_session_ids_lex(a, b) ==
  LET m == IF Len(a) < Len(b) THEN Len(a) ELSE Len(b)
      r == CompareLoop(a, b, 0, m)
  IN  IF r # "Equal" THEN r ELSE IntCmp(Len(a), Len(b))

\* fn compare_session_ids(a: &[u8], b: &[u8]) -> Ordering
compare_session_ids(a, b) ==
  LET n == Len(a)
  IN  IF n # Len(b) THEN IntCmp(n, Len(b))
      ELSE CompareLoop(a, b, 0, n)

\* SessionId::cmp_slice
cmp_slice(self, other) == compare_session_ids(self, other)

\* #[derive(PartialOrd, Ord)] on SessionId([u8; 32]): the lexicographic order
\* of the arrays, element by element as u8
DerivedCmp(a, b) ==
  LET differ == {i \in 1..SESSION_ID_SIZE : a[i] # b[i]}
  IN  IF differ = {} THEN "Equal"
      ELSE LET k == CHOOSE i \in differ : \A j \in differ : i <= j
           IN  IF a[k] < b[k] THEN "Less" ELSE "Greater"

\* #[derive(PartialEq, Eq)] on SessionId
DerivedEq(a, b) == \A i \in 1..SESSION_ID_SIZE : a[i] = b[i]

\* Result<SessionId>
OkId(bytes) == [ok |-> TRUE, kind |-> "Ok", id |-> bytes]
ErrId(kind) == [ok |-> FALSE, kind |-> kind, id |-> <<>>]

\* impl TryFrom<&[u8]> for SessionId: `value.try_into()?` builds the array
\* [u8; 32] from the slice; its error is std's TryFromSliceError, which `?`
\* turns into anyhow::Error as it is
TryFromSlice(value) ==
  IF Len(value) = SESSION_ID_SIZE THEN OkId(value) ELSE ErrId("TryFromSliceError")

\* impl TryFrom<&Vec<u8>> for SessionId
TryFromVecRef(value) == TryFromSlice(value)

\* impl TryFrom<Vec<u8>> for SessionId
TryFromVec(value) == TryFromSlice(value)

\* Option<&[u8]>
None == [some |-> FALSE, val |-> <<>>]
Some(b) == [some |-> TRUE, val |-> b]

\* the five implementors of SessionIdCompatible
Reprs == {"OptionVec", "OptionRef", "Slice", "Vec", "SessionId"}
OptionalReprs == {"OptionVec", "OptionRef"}

\* the values of the implementors over the buffers bufs and the identities ids
CompatValues(bufs, ids) ==
  {[repr |-> r, present |-> FALSE, bytes |-> <<>>] : r \in OptionalReprs}
  \cup {[repr |-> r, present |-> TRUE, bytes |-> b] : r \in {"OptionVec", "Slice", "Vec"}, b \in bufs}
  \cup {[repr |-> r, present |-> TRUE, bytes |-> b] : r \in {"OptionRef", "SessionId"}, b \in ids}

\* SessionIdCompatible::to_bytes, by implementor
to_bytes(v) ==
  CASE v.repr = "OptionVec" -> IF v.present THEN Some(v.bytes) ELSE None
    [] v.repr = "OptionRef" -> IF v.present THEN Some(v.bytes) ELSE None
    [] v.repr = "Slice"     -> Some(v.bytes)
    [] v.repr = "Vec"       -> Some(v.bytes)
    [] v.repr = "SessionId" -> Some(v.bytes)

\* SessionIdCompatible::to_session_id
to_session_id(v) ==
  LET b == to_bytes(v)
  IN  IF ~b.some THEN ErrId("Required") ELSE TryFromSlice(b.val)

\* SessionIdCompatible::eq_slice; "Panic" when the comparator panics
eq_slice(x, y) ==
  LET a == to_bytes(x)
      b == to_bytes(y)
  IN  IF ~a.some /\ ~b.some THEN "True"
      ELSE IF (~a.some) # (~b.some) THEN "False"
      ELSE LET r == compare_session_ids(a.val, b.val)
           IN  IF r = "Panic" THEN "Panic" ELSE IF r = "Equal" THEN "True" ELSE "False"

(***************************************************************************)
(* session_id_pair.rs: SignatureSet and its text form                      *)
(***************************************************************************)

\* the standard base64 alphabet as character codes: A-Z a-z 0-9 + /
B64Char(n) ==
  IF n < 26 THEN 65 + n
  ELSE IF n < 52 THEN 71 + n
  ELSE IF n < 62 THEN n - 4
  ELSE IF n = 62 THEN 43 ELSE 47

\* '='
B64Pad == 61
NotB64 == 0 - 1

\* the 6-bit value of a character code, NotB64 for a character outside the alphabet
B64Val(c) ==
  IF c >= 65 /\ c <= 90 THEN c - 65
  ELSE IF c >= 97 /\ c <= 122 THEN c - 71
  ELSE IF c >= 48 /\ c <= 57 THEN c + 4
  ELSE IF c = 43 THEN 62
  ELSE IF c = 47 THEN 63 ELSE NotB64

RECURSIVE B64From(_, _)
\* base64::encode of the bytes of b from position i on (1-based), with padding
B64From(b, i) ==
  LET left == Len(b) - i + 1
  IN  IF left <= 0 THEN <<>>
      ELSE IF left = 1 THEN
        <<B64Char(b[i] \div 4), B64Char((b[i] % 4) * 16), B64Pad, B64Pad>>
      ELSE IF left = 2 THEN
        <<B64Char(b[i] \div 4), B64Char((b[i] % 4) * 16 + b[i + 1] \div 16),
          B64Char((b[i + 1] % 16) * 4), B64Pad>>
      ELSE
        <<B64Char(b[i] \div 4), B64Char((b[i] % 4) * 16 + b[i + 1] \div 16),
          B64Char((b[i + 1] % 16) * 4 + b[i + 2] \div 64), B64Char(b[i + 2] % 64)>>
        \o B64From(b, i + 3)

\* base64::encode
base64_encode(b) == B64From(b, 1)

OkBytes(b) == [ok |-> TRUE, bytes |-> b]
ErrBytes == [ok |-> FALSE, bytes |-> <<>>]

\* the bytes of one group of four characters, the last group may be padded
B64Group(t, i, last) ==
  LET v1 == B64Val(t[i])
      v2 == B64Val(t[i + 1])
      v3 == B64Val(t[i + 2])
      v4 == B64Val(t[i + 3])
  IN  IF v1 = NotB64 \/ v2 = NotB64 THEN ErrBytes
      ELSE IF last /\ t[i + 2] = B64Pad /\ t[i + 3] = B64Pad THEN
        IF v2 % 16 # 0 THEN ErrBytes ELSE OkBytes(<<v1 * 4 + v2 \div 16>>)
      ELSE IF v3 = NotB64 THEN ErrBytes
      ELSE IF last /\ t[i + 3] = B64Pad THEN
        IF v3 % 4 # 0 THEN ErrBytes
        ELSE OkBytes(<<v1 * 4 + v2 \div 16, (v2 % 16) * 16 + v3 \div 4>>)
      ELSE IF v4 = NotB64 THEN ErrBytes
      ELSE OkBytes(<<v1 * 4 + v2 \div 16, (v2 % 16) * 16 + v3 \div 4, (v3 % 4) * 64 + v4>>)

RECURSIVE B64DecodeFrom(_, _)
B64DecodeFrom(t, i) ==
  IF i > Len(t) THEN OkBytes(<<>>)
  ELSE LET g == B64Group(t, i, i + 3 = Len(t))
       IN  IF ~g.ok THEN ErrBytes
           ELSE LET rest == B64DecodeFrom(t, i + 4)
                IN  IF ~rest.ok THEN ErrBytes ELSE OkBytes(g.bytes \o rest.bytes)

\* base64::decode of a padded text; a text whose length is no multiple of
\* four is never handed to it here
base64_decode(t) ==
  IF Len(t) % 4 # 0 THEN ErrBytes ELSE B64DecodeFrom(t, 1)

\* Result<SignatureSet>
SigSet(sig, salt) == [signature |-> sig, salt |-> salt]
ZeroSigSet == SigSet([i \in 1..SIGNATURE_SIZE |-> 0], [i \in 1..SIGNATURE_SALT_SIZE |-> 0])
OkSs(ss) == [ok |-> TRUE, kind |-> "Ok", ss |-> ss]
ErrSs(kind) == [ok |-> FALSE, kind |-> kind, ss |-> ZeroSigSet]

\* mutant: the salt is written before the signature
Display_salt_first(ss) == base64_encode(ss.salt \o ss.signature)

\* impl fmt::Display for SignatureSet
Display(ss) == base64_encode(ss.signature \o ss.salt)

\* impl TryFrom<Vec<u8>> for SignatureSet
TryFromVecSs(value) ==
  IF Len(value) # SIGNATURE_SIZE + SIGNATURE_SALT_SIZE THEN ErrSs("Convert")
  ELSE OkSs(SigSet(SubSeq(value, 1, SIGNATURE_SIZE),
                   SubSeq(value, SIGNATURE_SIZE + 1, Len(value))))

\* impl FromStr for SignatureSet: `base64::decode(s)?.try_into()`
FromStrSs(t) ==
  LET d == base64_decode(t)
  IN  IF ~d.ok THEN ErrSs("DecodeError") ELSE TryFromVecSs(d.bytes)

(***************************************************************************)
(* session_id_pair.rs: key pairs, sign and verify                          *)
(*                                                                         *)
(* The primitives of ed25519_dalek are idealised.  SHA-512 is collision    *)
(* free: a digest stands for exactly the bytes fed to the hasher.  A       *)
(* signature is an injective 64-byte encoding of (secret key, digest), and *)
(* prehashed verification accepts exactly the signature that the owner of  *)
(* the public key makes over the digest.                                   *)
(***************************************************************************)

\* ed25519_dalek::PublicKey::from(&sk): one public key per secret key
PublicFrom(sk) == [i \in 1..Len(sk) |-> (sk[i] * 5 + 1) % 256]

\* ed25519_dalek::Keypair
KeyPair(sk) == [secret |-> sk, public |-> PublicFrom(sk)]
NoKey == [secret |-> <<>>, public |-> <<>>]

\* the secret keys getrandom may deliver to new_session_id_pair
SecretSeeds == {Pattern(SESSION_ID_SIZE, 9, 1, 17), Pattern(SESSION_ID_SIZE, 9, 32, 30)}

\* fn new_session_id_pair, given the 32 bytes drawn
new_session_id_pair(seed) == KeyPair(seed)

\* ISessionIdPair::get_id
get_id(pair) == pair.public

\* ed25519_dalek::Sha512::new() and hasher.update(data)
Sha512New == <<>>
Sha512Update(hasher, data) == hasher \o data

RECURSIVE UpdateAll(_, _, _)
\* `for p in payload { hasher.update(p); }`, from segment i on
UpdateAll(hasher, segs, i) ==
  IF i > Len(segs) THEN hasher
  ELSE UpdateAll(Sha512Update(hasher, segs[i]), segs, i + 1)

RECURSIVE UpdateAllReversed(_, _, _)
UpdateAllReversed(hasher, segs, i) ==
  IF i < 1 THEN hasher
  ELSE UpdateAllReversed(Sha512Update(hasher, segs[i]), segs, i - 1)

RECURSIVE UpdateAllFramed(_, _, _)
UpdateAllFramed(hasher, segs, i) ==
  IF i > Len(segs) THEN hasher
  ELSE UpdateAllFramed(Sha512Update(Sha512Update(hasher, <<Len(segs[i])>>), segs[i]), segs, i + 1)

\* the ideal signature of the owner of secret key sk over a digest
IdealSignature(sk, digest) ==
  [i \in 1..SIGNATURE_SIZE |->
     IF i = 1 THEN Len(digest)
     ELSE IF i - 1 <= Len(digest) THEN digest[i - 1]
     ELSE IF i <= SESSION_ID_SIZE THEN 0
     ELSE sk[i - SESSION_ID_SIZE] % 32]

\* Keypair::sign_prehashed(hasher, None)
sign_prehashed(pair, hasher) == IdealSignature(pair.secret, hasher)

\* the public keys of the secret keys, and the secret key behind each
PublicKeys == {PublicFrom(sk) : sk \in SecretSeeds}
SecretOf == [pk \in PublicKeys |-> CHOOSE sk \in SecretSeeds : PublicFrom(sk) = pk]

\* PublicKey::from_bytes: the bytes must encode a curve point
PublicKeyFromBytes(id) == id \in PublicKeys

\* Signature::from_bytes: the three high bits of the last byte must be clear
SignatureFromBytes(sig) == sig[SIGNATURE_SIZE] < 32

\* PublicKey::verify_prehashed(hasher, None, &signature), pk a public key
verify_prehashed(pk, hasher, sig) == sig = IdealSignature(SecretOf[pk], hasher)

\* mutant: the salt is left out of the digest that is signed
sign_unsalted(pair, segs, salt) ==
  OkSs(SigSet(sign_prehashed(pair, UpdateAll(Sha512New, segs, 1)), salt))

\* ISessionIdPair::sign, given the salt drawn by getrandom
sign(pair, segs, salt) ==
  LET hasher == UpdateAll(Sha512Update(Sha512New, salt), segs, 1)
  IN  OkSs(SigSet(sign_prehashed(pair, hasher), salt))

\* mutant: the outcome of verify_prehashed is dropped
verify_unchecked(id, segs, sigset) ==
  IF ~PublicKeyFromBytes(id) THEN "Signature"
  ELSE IF ~SignatureFromBytes(sigset.signature) THEN "Signature"
  ELSE "Ok"

\* mutant: the segments are fed to the hasher last to first
verify_reversed(id, segs, sigset) ==
  IF ~PublicKeyFromBytes(id) THEN "Signature"
  ELSE LET hasher == UpdateAllReversed(Sha512Update(Sha512New, sigset.salt), segs, Len(segs))
       IN  IF ~SignatureFromBytes(sigset.signature) THEN "Signature"
           ELSE IF verify_prehashed(id, hasher, sigset.signature) THEN "Ok" ELSE "Signature"

\* mutant: every segment is fed to the hasher after its length
verify_framed(id, segs, sigset) ==
  IF ~PublicKeyFromBytes(id) THEN "Signature"
  ELSE LET hasher == UpdateAllFramed(Sha512Update(Sha512New, sigset.salt), segs, 1)
       IN  IF ~SignatureFromBytes(sigset.signature) THEN "Signature"
           ELSE IF verify_prehashed(id, hasher, sigset.signature) THEN "Ok" ELSE "Signature"

\* SessionIdPublic::verify: "Ok", or the kind of the error
verify(id, segs, sigset) ==
  IF ~PublicKeyFromBytes(id) THEN "Signature"
  ELSE LET hasher == UpdateAll(Sha512Update(Sha512New, sigset.salt), segs, 1)
       IN  IF ~SignatureFromBytes(sigset.signature) THEN "Signature"
           ELSE IF verify_prehashed(id, hasher, sigset.signature) THEN "Ok" ELSE "Signature"

(***************************************************************************)
(* Inputs                                                                  *)
(***************************************************************************)
\* 32-byte identities
SampleIds == {Pattern(SESSION_ID_SIZE, f, p, v) : f \in IdBytes, p \in IdPositions, v \in IdBytes}
\* a few of them, for the compatibility layer
FewIds == {Pattern(SESSION_ID_SIZE, 3, p, v) : p \in {1, 32}, v \in {3, 4}}
\* buffers of every length up to MaxConvLen
ConvBuffers == {Pattern(n, f, p, v) : n \in 0..MaxConvLen, f \in {0, 3}, p \in {1, 31}, v \in {3, 255}}

\* SignatureSets and buffers around 72 bytes
SampleSigSets ==
  {SigSet(Pattern(SIGNATURE_SIZE, f, p, v), Pattern(SIGNATURE_SALT_SIZE, g, q, w)) :
     f \in {0, 255}, p \in {1, 2, 3, 64}, v \in {1, 128},
     g \in {0, 2}, q \in {1, 8}, w \in {7, 255}}
SigBuffers == {Pattern(n, f, p, v) : n \in 0..MaxSigBufLen, f \in {1, 254}, p \in {64, 65}, v \in {2, 77}}
\* a text with a character outside the base64 alphabet
BadText == <<65, 32, 65, 65>>

\* payload bytes ('1' and '2'), segments and payloads
PayloadBytes == {49, 50}
Segments == SeqsUpTo(PayloadBytes, MaxPayloadLen)
\* the salts getrandom may deliver: all zero, and two others
ZeroSalt == [i \in 1..SIGNATURE_SALT_SIZE |-> 0]
SampleSalts == {ZeroSalt, Pattern(SIGNATURE_SALT_SIZE, 0, 8, 49), Pattern(SIGNATURE_SALT_SIZE, 200, 1, 50)}
ZeroSignature == [i \in 1..SIGNATURE_SIZE |-> 0]

RECURSIVE Concat(_)
\* the bytes of the segments one after the other
Concat(segs) == IF segs = <<>> THEN <<>> ELSE Head(segs) \o Concat(Tail(segs))

PayloadLists == {m \in SeqsUpTo(Segments, MaxSegs) : Len(Concat(m)) <= MaxPayloadLen}

\* the payloads with the same bytes, by those bytes
ByConcat == [c \in {Concat(m) : m \in PayloadLists} |-> {m \in PayloadLists : Concat(m) = c}]

\* the reorderings of a payload
Reorderings(segs) ==
  LET n == Len(segs)
  IN  {[i \in 1..n |-> segs[f[i]]] :
         f \in {g \in [1..n -> 1..n] : \A i, j \in 1..n : i # j => g[i] # g[j]}}

\* a payload with one segment replaced by another of the same length
Replaced(segs) ==
  UNION {{[segs EXCEPT ![i] = t] : t \in {u \in Segments : Len(u) = Len(segs[i]) /\ u # segs[i]}} :
           i \in 1..Len(segs)}

NoOrd == "none"
NoRes == ErrId("none")
NoCompat == [repr |-> "Slice", present |-> TRUE, bytes |-> <<>>]

IdleCmp == cmpA = <<>> /\ cmpB = <<>> /\ cmpC = <<>>
           /\ ordAB = NoOrd /\ ordBA = NoOrd /\ ordBC = NoOrd /\ ordAC = NoOrd
IdleOrd == sidA = <<>> /\ sidB = <<>> /\ sidDerived = NoOrd /\ sidSlice = NoOrd
IdleEq == cx = NoCompat /\ cy = NoCompat /\ eqXY = "none" /\ eqYX = "none"
IdleConv == convIn = NoCompat /\ convRes = NoRes
IdleSs == ssIn = ZeroSigSet /\ ssVec = <<>> /\ ssText = <<>> /\ ssRes = ErrSs("none")

cmpVars == <<cmpA, cmpB, cmpC, ordAB, ordBA, ordBC, ordAC>>
ordVars == <<sidA, sidB, sidDerived, sidSlice>>
eqVars == <<cx, cy, eqXY, eqYX>>
convVars == <<convIn, convRes>>
ssVars == <<ssIn, ssVec, ssText, ssRes>>
signVars == <<kp, payload, signed, earlier, vId, vPayload, vSig, vRes>>
IdleSign == kp = NoKey /\ payload = <<>> /\ signed = ErrSs("none") /\ earlier = ErrSs("none")
            /\ vId = <<>> /\ vPayload = <<>> /\ vSig = ZeroSigSet /\ vRes = "none"

(***************************************************************************)
(* SpecCmp: the general comparator on three buffers                        *)
(***************************************************************************)
InitCmp ==
  /\ pc = "start"
  /\ cmpA \in ShortBuffers /\ cmpB \in ShortBuffers /\ cmpC \in ShortBuffers
  /\ ordAB = NoOrd /\ ordBA = NoOrd /\ ordBC = NoOrd /\ ordAC = NoOrd
  /\ IdleOrd /\ IdleEq /\ IdleConv /\ IdleSs /\ IdleSign

Compare ==
  /\ pc = "start"
  /\ pc' = "compared"
  /\ ordAB' = compare_session_ids(cmpA, cmpB)
  /\ ordBA' = compare_session_ids(cmpB, cmpA)
  /\ ordBC' = compare_session_ids(cmpB, cmpC)
  /\ ordAC' = compare_session_ids(cmpA, cmpC)
  /\ UNCHANGED <<cmpA, cmpB, cmpC, ordVars, eqVars, convVars, ssVars, signVars>>

NextCmp == Compare
SpecCmp == InitCmp /\ [][NextCmp]_vars

(***************************************************************************)
(* SpecOrd: the derived order of SessionId against cmp_slice               *)
(***************************************************************************)
InitOrd ==
  /\ pc = "start"
  /\ sidA \in SampleIds /\ sidB \in SampleIds
  /\ sidDerived = NoOrd /\ sidSlice = NoOrd
  /\ IdleCmp /\ IdleEq /\ IdleConv /\ IdleSs /\ IdleSign

CmpIds ==
  /\ pc = "start"
  /\ pc' = "compared"
  /\ sidDerived' = DerivedCmp(sidA, sidB)
  /\ sidSlice' = cmp_slice(sidA, sidB)
  /\ UNCHANGED <<sidA, sidB, cmpVars, eqVars, convVars, ssVars, signVars>>

NextOrd == CmpIds
SpecOrd == InitOrd /\ [][NextOrd]_vars

(***************************************************************************)
(* SpecEq: eq_slice of the compatibility layer                             *)
(***************************************************************************)
EqValues == CompatValues(ShortBuffers, FewIds)

InitEq ==
  /\ pc = "start"
  /\ cx \in EqValues /\ cy \in EqValues
  /\ eqXY = "none" /\ eqYX = "none"
  /\ IdleCmp /\ IdleOrd /\ IdleConv /\ IdleSs /\ IdleSign

EqSlice ==
  /\ pc = "start"
  /\ pc' = "eq_slice"
  /\ eqXY' = eq_slice(cx, cy)
  /\ eqYX' = eq_slice(cy, cx)
  /\ UNCHANGED <<cx, cy, cmpVars, ordVars, convVars, ssVars, signVars>>

NextEq == EqSlice
SpecEq == InitEq /\ [][NextEq]_vars

(***************************************************************************)
(* SpecConv: building a SessionId from bytes                               *)
(***************************************************************************)
ConvValues == CompatValues(ConvBuffers, FewIds)

InitConv ==
  /\ pc = "start"
  /\ convIn \in ConvValues
  /\ convRes = NoRes
  /\ IdleCmp /\ IdleOrd /\ IdleEq /\ IdleSs /\ IdleSign

\* SessionId::try_from(&[u8]), try_from(&Vec<u8>), try_from(Vec<u8>)
TryFrom ==
  /\ pc = "start"
  /\ convIn.present
  /\ \/ convIn.repr = "Slice" /\ convRes' = TryFromSlice(convIn.bytes) /\ pc' = "try_from_slice"
     \/ convIn.repr = "Vec" /\ convRes' = TryFromVecRef(convIn.bytes) /\ pc' = "try_from_vec_ref"
     \/ convIn.repr = "Vec" /\ convRes' = TryFromVec(convIn.bytes) /\ pc' = "try_from_vec"
  /\ UNCHANGED <<convIn, cmpVars, ordVars, eqVars, ssVars, signVars>>

ToSessionId ==
  /\ pc = "start"
  /\ pc' = "to_session_id"
  /\ convRes' = to_session_id(convIn)
  /\ UNCHANGED <<convIn, cmpVars, ordVars, eqVars, ssVars, signVars>>

NextConv == TryFrom \/ ToSessionId
SpecConv == InitConv /\ [][NextConv]_vars

(***************************************************************************)
(* SpecSs: the text form and the byte layout of SignatureSet               *)
(***************************************************************************)
InitSs ==
  /\ pc = "start"
  /\ \/ ssIn \in SampleSigSets /\ ssVec = <<>>
     \/ ssIn = ZeroSigSet /\ ssVec \in SigBuffers
  /\ ssText = <<>>
  /\ ssRes = ErrSs("none")
  /\ IdleCmp /\ IdleOrd /\ IdleEq /\ IdleConv /\ IdleSign

\* ss.to_string()
SsToString ==
  /\ pc = "start"
  /\ pc' = "to_string"
  /\ ssText' = Display(ssIn)
  /\ UNCHANGED <<ssIn, ssVec, ssRes, cmpVars, ordVars, eqVars, convVars, signVars>>

\* serialized.parse::<SignatureSet>() on the text of to_string
ParseBack ==
  /\ pc = "to_string"
  /\ pc' = "parsed_back"
  /\ ssRes' = FromStrSs(ssText)
  /\ UNCHANGED <<ssIn, ssVec, ssText, cmpVars, ordVars, eqVars, convVars, signVars>>

\* SignatureSet::try_from(buffer)
TryFromBuffer ==
  /\ pc = "start"
  /\ pc' = "try_from_buffer"
  /\ ssRes' = TryFromVecSs(ssVec)
  /\ UNCHANGED <<ssIn, ssVec, ssText, cmpVars, ordVars, eqVars, convVars, signVars>>

\* parse of a text received from elsewhere: the base64 of a buffer, or a text
\* that is no base64
ParseText ==
  /\ pc = "start"
  /\ pc' = "parsed_text"
  /\ \E t \in {base64_encode(ssVec), BadText} :
       /\ ssText' = t
       /\ ssRes' = FromStrSs(t)
  /\ UNCHANGED <<ssIn, ssVec, cmpVars, ordVars, eqVars, convVars, signVars>>

NextSs == SsToString \/ ParseBack \/ TryFromBuffer \/ ParseText
SpecSs == InitSs /\ [][NextSs]_vars

(***************************************************************************)
(* SpecSign: a signer generates a key pair and signs a payload; a verifier *)
(* checks the SignatureSet, as made or with one input changed              *)
(***************************************************************************)
InitSign ==
  /\ pc = "start"
  /\ kp = NoKey
  /\ payload \in PayloadLists
  /\ signed = ErrSs("none")
  /\ earlier = ErrSs("none")
  /\ vId = <<>> /\ vPayload = <<>> /\ vSig = ZeroSigSet /\ vRes = "none"
  /\ IdleCmp /\ IdleOrd /\ IdleEq /\ IdleConv /\ IdleSs

\* new_session_id_pair()
Generate ==
  /\ pc = "start"
  /\ pc' = "generated"
  /\ \E seed \in SecretSeeds : kp' = new_session_id_pair(seed)
  /\ UNCHANGED <<payload, signed, earlier, vId, vPayload, vSig, vRes,
                 cmpVars, ordVars, eqVars, convVars, ssVars>>

\* kp.sign(payload); a second call on the same pair and payload draws a salt
\* of its own
Sign ==
  /\ \/ /\ pc = "generated"
        /\ \E salt \in SampleSalts : signed' = sign(kp, payload, salt)
        /\ earlier' = earlier
        /\ pc' = "signed"
     \/ /\ pc = "signed"
        /\ \E salt \in SampleSalts : signed' = sign(kp, payload, salt)
        /\ earlier' = signed
        /\ pc' = "signed_twice"
     \/ /\ pc = "generated"
        /\ signed' = ErrSs("getrandom")
        /\ earlier' = earlier
        /\ pc' = "sign_failed"
  /\ UNCHANGED <<kp, payload, vId, vPayload, vSig, vRes,
                 cmpVars, ordVars, eqVars, convVars, ssVars>>

\* session_id.verify(payload, &sigset) on the SignatureSet the signer made,
\* with at most one of the payload, the identity, the salt and the signature
\* changed
Verify ==
  /\ pc = "signed"
  /\ pc' = "verified"
  /\ \/ /\ vId' = get_id(kp)
        /\ vSig' = signed.ss
        /\ vPayload' \in {payload} \cup Replaced(payload) \cup Reorderings(payload)
                          \cup ByConcat[Concat(payload)]
     \/ /\ vId' \in {get_id(new_session_id_pair(seed)) : seed \in SecretSeeds}
        /\ vSig' = signed.ss
        /\ vPayload' = payload
     \/ /\ vId' = get_id(kp)
        /\ vSig' \in {SigSet(signed.ss.signature, ZeroSalt), SigSet(ZeroSignature, signed.ss.salt)}
        /\ vPayload' = payload
  /\ vRes' = verify(vId', vPayload', vSig')
  /\ UNCHANGED <<kp, payload, signed, earlier, cmpVars, ordVars, eqVars, convVars, ssVars>>

\* after two sign calls: session_id.verify(payload, &sigset) on either result
VerifyEither ==
  /\ pc = "signed_twice"
  /\ pc' = "verified"
  /\ vId' = get_id(kp)
  /\ vPayload' = payload
  /\ vSig' \in {signed.ss, earlier.ss}
  /\ vRes' = verify(vId', vPayload', vSig')
  /\ UNCHANGED <<kp, payload, signed, earlier, cmpVars, ordVars, eqVars, convVars, ssVars>>

NextSign == Generate \/ Sign \/ Verify \/ VerifyEither
SpecSign == InitSign /\ [][NextSign]_vars

(***************************************************************************)
(* Claims about session_id.rs                                              *)
(***************************************************************************)
\* the first position at which two buffers of equal length differ (0: none)
FirstDiff(a, b) ==
  IF \A i \in DOMAIN a : a[i] = b[i] THEN 0
  ELSE CHOOSE k \in DOMAIN a : a[k] # b[k] /\ \A j \in 1..(k - 1) : a[j] = b[j]

\* what the first differing byte says, each byte an unsigned value
ByFirstDiff(a, b) ==
  LET k == FirstDiff(a, b)
  IN  IF k = 0 THEN "Equal" ELSE IF a[k] < b[k] THEN "Less" ELSE "Greater"

LessEq(o) == o \in {"Less", "Equal"}

\* C4: building a SessionId from a buffer succeeds exactly when the buffer has
\* 32 bytes, the identity then holds those bytes, and any other length is an
\* error of kind ConvertError (SessionIdError::Convert).
C4_TryFromBytes ==
  pc \in {"try_from_slice", "try_from_vec_ref", "try_from_vec"} =>
    /\ convRes.ok <=> Len(convIn.bytes) = SESSION_ID_SIZE
    /\ convRes.ok => convRes.id = convIn.bytes
    /\ ~convRes.ok => convRes.kind = "Convert"

\* C5: to_session_id is RequiredError when the value is absent, ConvertError
\* when it is present with a length other than 32, and otherwise the identity
\* of the present bytes.
C5_ToSessionId ==
  pc = "to_session_id" =>
    /\ ~convIn.present => ~convRes.ok /\ convRes.kind = "Required"
    /\ convIn.present /\ Len(convIn.bytes) # SESSION_ID_SIZE =>
         ~convRes.ok /\ convRes.kind = "Convert"
    /\ convIn.present /\ Len(convIn.bytes) = SESSION_ID_SIZE =>
         convRes.ok /\ convRes.id = convIn.bytes

\* C6: eq_slice is true when both values are absent, false when exactly one is,
\* and for two present buffers true exactly when they have the same length and
\* the same byte at every position; it never panics and is symmetric.
C6_EqSlice ==
  pc = "eq_slice" =>
    /\ eqXY \in {"True", "False"}
    /\ ~cx.present /\ ~cy.present => eqXY = "True"
    /\ cx.present # cy.present => eqXY = "False"
    /\ cx.present /\ cy.present =>
         (eqXY = "True" <=>
            /\ Len(cx.bytes) = Len(cy.bytes)
            /\ \A i \in 1..Len(cx.bytes) : cx.bytes[i] = cy.bytes[i])
    /\ eqXY = eqYX

\* two present buffers of different lengths that agree on their common prefix
C6_Witness ==
  /\ pc = "eq_slice"
  /\ cx.present /\ cy.present
  /\ Len(cx.bytes) = 1 /\ Len(cy.bytes) = 2 /\ cx.bytes[1] = cy.bytes[1]
  /\ eqXY = "False" /\ eqYX = "False"

\* C8: exactly one of a<b, a==b, a>b holds for two identities; a==b exactly
\* when all 32 bytes are equal; the first differing byte, as an unsigned value,
\* decides; and cmp_slice returns the Ordering of the derived cmp.
C8_IdentityOrder ==
  pc = "compared" =>
    /\ sidDerived \in Ordering
    /\ sidDerived = "Equal" <=> \A i \in 1..SESSION_ID_SIZE : sidA[i] = sidB[i]
    /\ sidDerived = "Equal" <=> DerivedEq(sidA, sidB)
    /\ sidDerived = ByFirstDiff(sidA, sidB)
    /\ sidSlice = sidDerived

\* two identities whose first difference is past the first byte, one byte
\* below 128 and the other above
C8_Witness ==
  /\ pc = "compared"
  /\ FirstDiff(sidA, sidB) > 1
  /\ sidA[FirstDiff(sidA, sidB)] < 128 /\ sidB[FirstDiff(sidA, sidB)] >= 128
  /\ sidSlice = "Less" /\ sidDerived = "Less"

\* C9: compare_session_ids never panics; on buffers of different lengths it
\* returns the ordering of the lengths alone and never Equal; on buffers of
\* the same length the ordering of the first differing byte, or Equal; the
\* relation is a total order (antisymmetric and transitive).
C9_GeneralComparator ==
  pc = "compared" =>
    /\ ordAB \in Ordering
    /\ Len(cmpA) < Len(cmpB) => ordAB = "Less"
    /\ Len(cmpA) > Len(cmpB) => ordAB = "Greater"
    /\ Len(cmpA) = Len(cmpB) => ordAB = ByFirstDiff(cmpA, cmpB)
    /\ ordAB = "Equal" <=> cmpA = cmpB
    /\ ordAB = "Less" <=> ordBA = "Greater"
    /\ ordAB = "Greater" <=> ordBA = "Less"
    /\ LessEq(ordAB) /\ LessEq(ordBC) => LessEq(ordAC)
    /\ LessEq(ordAB) /\ LessEq(ordBC) /\ "Less" \in {ordAB, ordBC} => ordAC = "Less"

\* a shorter buffer with the larger first byte is Less, and a chain a < b < c
C9_Witness ==
  /\ pc = "compared"
  /\ Len(cmpA) = 1 /\ Len(cmpB) = 2 /\ cmpA[1] > cmpB[1]
  /\ ordAB = "Less" /\ ordBC = "Less" /\ ordAC = "Less"

(***************************************************************************)
(* Claims about SignatureSet                                               *)
(***************************************************************************)
\* C7: the text form of a SignatureSet encodes exactly the 72 bytes signature
\* (64) then salt (8); parsing that text gives back both fields; the first 64
\* bytes of a 72-byte buffer become the signature and the last 8 the salt; and
\* a decoded buffer of any other length is rejected with ConvertError.
C7_TextRoundTrip ==
  /\ pc \in {"to_string", "parsed_back"} =>
       /\ Len(ssText) = 96
       /\ base64_decode(ssText) = OkBytes(ssIn.signature \o ssIn.salt)
  /\ pc = "parsed_back" =>
       /\ ssRes.ok
       /\ ssRes.ss.signature = ssIn.signature
       /\ ssRes.ss.salt = ssIn.salt
  /\ pc \in {"try_from_buffer", "parsed_text"} /\ ssText # BadText =>
       IF Len(ssVec) = 72
       THEN /\ ssRes.ok
            /\ ssRes.ss.signature = [i \in 1..64 |-> ssVec[i]]
            /\ ssRes.ss.salt = [i \in 1..8 |-> ssVec[64 + i]]
       ELSE ~ssRes.ok /\ ssRes.kind = "Convert"

\* a SignatureSet whose salt differs from the head of its signature came back
\* from its text
C7_Witness ==
  /\ pc = "parsed_back"
  /\ ssRes.ok /\ ssRes.ss = ssIn
  /\ ssIn.salt # SubSeq(ssIn.signature, 1, SIGNATURE_SALT_SIZE)
  /\ ssIn.signature[64] = 128 /\ ssIn.salt[8] = 255

(***************************************************************************)
(* Claims about sign and verify                                            *)
(***************************************************************************)
\* the SignatureSets the signer has made over payload
Made == {r.ss : r \in {r \in {signed, earlier} : r.ok}}

\* verify was called with the signer's identity and a SignatureSet it made
Untouched == vId = get_id(kp) /\ vSig \in Made

\* C1: whatever salt is drawn, the SignatureSet returned by sign(P, L) passes
\* verify(get_id(P), L, .); of two sign calls on the same P and L each result
\* passes on its own.
C1_SignVerify ==
  /\ pc \in {"signed", "signed_twice"} =>
       /\ signed.ok
       /\ \A ss \in Made : verify(get_id(kp), payload, ss) = "Ok"
  /\ pc = "signed_twice" => earlier.ok
  /\ pc = "verified" /\ Untouched /\ vPayload = payload => vRes = "Ok"

\* the earlier of two SignatureSets with different salts over a payload with
\* an empty segment is verified
C1_Witness ==
  /\ pc = "verified"
  /\ earlier.ok /\ signed.ok /\ earlier.ss.salt # signed.ss.salt
  /\ Untouched /\ vSig = earlier.ss /\ vPayload = payload
  /\ Len(payload) = 2 /\ payload[1] = <<>>
  /\ vRes = "Ok"

\* C2: verify returns an error when exactly one input is changed: (a) a
\* payload segment replaced by a different one of the same length, (b) the
\* identity replaced by that of a different key pair, (c) the salt replaced
\* by eight zero bytes, (d) the signature replaced by 64 zero bytes.
C2_Tampering ==
  pc = "verified" =>
    /\ Untouched /\ vPayload \in Replaced(payload) => vRes # "Ok"
    /\ vId # get_id(kp) /\ vSig \in Made /\ vPayload = payload => vRes # "Ok"
    /\ \A ss \in Made :
         /\ vId = get_id(kp) /\ vPayload = payload
         /\ vSig = SigSet(ss.signature, ZeroSalt) /\ ss.salt # ZeroSalt
         => vRes # "Ok"
    /\ \A ss \in Made :
         /\ vId = get_id(kp) /\ vPayload = payload
         /\ vSig = SigSet(ZeroSignature, ss.salt)
         => vRes # "Ok"

\* the second segment of two was replaced and verify returned the error
C2_Witness ==
  /\ pc = "verified"
  /\ Untouched
  /\ Len(payload) = 2 /\ vPayload \in Replaced(payload)
  /\ vPayload[1] = payload[1] /\ vPayload[2] # payload[2]
  /\ vRes = "Signature"

\* C3 as stated: every reordering of the segments that differs from the
\* original list makes verify return an error.
C3_AnyReorderFails ==
  /\ pc = "verified" /\ Untouched
  /\ vPayload \in Reorderings(payload) /\ vPayload # payload
  => vRes # "Ok"

\* C3 amended: a reordering of the segments whose concatenation differs from
\* that of the original list makes verify return an error.
C3_ReorderFails ==
  /\ pc = "verified" /\ Untouched
  /\ vPayload \in Reorderings(payload) /\ Concat(vPayload) # Concat(payload)
  => vRes # "Ok"

\* two different segments were swapped and verify returned the error
C3_Witness ==
  /\ pc = "verified" /\ Untouched
  /\ Len(payload) = 2 /\ payload[1] # payload[2]
  /\ vPayload = <<payload[2], payload[1]>>
  /\ Concat(vPayload) # Concat(payload)
  /\ vRes = "Signature"

\* C10: verify depends on the payload only through the concatenation of its
\* segments: lists with the same concatenation get the same outcome for the
\* same identity and SignatureSet, so a signature made over one is accepted
\* for the other.
C10_BoundariesNotSigned ==
  pc = "verified" =>
    /\ \A m \in ByConcat[Concat(vPayload)] : verify(vId, m, vSig) = vRes
    /\ Untouched /\ Concat(vPayload) = Concat(payload) => vRes = "Ok"

\* a signature over two segments was accepted for the one segment that joins them
C10_Witness ==
  /\ pc = "verified" /\ Untouched
  /\ Len(payload) = 2 /\ Len(vPayload) = 1
  /\ payload[1] # <<>> /\ payload[2] # <<>>
  /\ vPayload[1] = payload[1] \o payload[2]
  /\ vRes = "Ok"

====
